---- MODULE Spec2Model ----
(***************************************************************************)
(* A model of the araa-gps notebooks: the kernel-assessment experiment     *)
(* (src/src/scripts/assessment.ipynb, first notebook of the file), the     *)
(* quasar time-delay experiment (same file, second notebook) and the       *)
(* Multiband kernel wrapper.  A notebook is a straight-line sequence of    *)
(* cells; one action models one code cell, and an exception raised by an   *)
(* external inference call stops the run of the notebook at that cell.     *)
(***************************************************************************)
EXTENDS Integers, Sequences, FiniteSets, TLC

VARIABLES
    apc,        \* assessment notebook: the cell to run next
    N,          \* assessment notebook: the observation count
    dataset,    \* assessment notebook: the simulated t, y and yerr, None before the simulation
    mask_train, \* assessment notebook: the train mask, <<>> before the simulation
    runs,       \* assessment notebook: call site -> what the call was given and returned
    calls,      \* assessment notebook: call site -> number of invocations
    hist,       \* assessment notebook: the curves of the latest histogram
    evid,       \* assessment notebook: the points of the latest evidence plot
    fig,        \* assessment notebook: the panels of assessment.pdf once written
    qpc,        \* quasar notebook: the cell (or the step of the sweep) to run next
    data,       \* quasar notebook: the jd column of the table read from quasar.csv
    X,          \* quasar notebook: the coordinates (t, band), None before they are built
    diag,       \* quasar notebook: the squared uncertainties, by observation
    y,          \* quasar notebook: the simulated values
    loss_true,  \* quasar notebook: the value of loss at the true parameters
    heap,       \* quasar notebook: the parameter dicts, by object
    init,       \* quasar notebook: the object the name init is bound to
    minimum,    \* quasar notebook: <<loss, object>>, the running minimum of the sweep
    lags,       \* quasar notebook: the lag of each grid point's solution
    vals,       \* quasar notebook: the loss of each grid point's solution
    gi,         \* quasar notebook: the grid point the sweep is at
    qcalls,     \* quasar notebook: invocations of opt.run by grid point, and of sampler.run
    init_params,\* quasar notebook: the values the sampler is initialised with
    t_grid,     \* quasar notebook: the ends of the prediction grid
    truths,     \* quasar notebook: the truths marked in the posterior plot
    samples,    \* quasar notebook: the posterior samples of the sampler
    fn          \* a function under study: its arguments and its results

avars == <<apc, N, dataset, mask_train, runs, calls, hist, evid, fig>>

qvars == <<qpc, data, X, diag, y, loss_true, heap, init, minimum, lags, vals, gi,
           qcalls, init_params, t_grid, truths, samples>>

vars == <<avars, qvars, fn>>

\* What a cell of the assessment notebook, or of the quasar notebook, leaves alone.
NotAssess == <<qvars, fn>>
NotQuasar == <<avars, fn>>

-----------------------------------------------------------------------------
(* Bounds of the model.                                                    *)

\* Largest observation count explored (the notebook sets N = 120).
MaxN == 23

\* The outcomes of the N uniform draws explored: every vector that differs from
\* the all-True or the all-False vector in at most MaxFlips places.
MaxFlips == 2

\* Scores (held-out log-probabilities, log-evidences) range over 0..MaxScore.
MaxScore == 2

\* Width of the boundary exclusion at each end of the mask.
Boundary == 10

Scores == 0..MaxScore

\* Largest number of rows of the quasar table explored.
MaxObs == 1

\* Amplitudes of the Multiband kernel range over -1..MaxAmp, times over 0..MaxT.
MaxAmp == 2
MaxT == 1

\* The jd column holds multiples of the true lag, 0 .. MaxJd * TrueLag.
MaxJd == 1

\* Number of grid points of the lag sweep (the notebook sweeps 100).
GridSize == 3

\* Losses are 0..MaxLoss, or NaN.
MaxLoss == 2

\* The optimizer returns the lag it was started at, or one moved by MaxDrift.
MaxDrift == 7

\* true_params["lag"]
TrueLag == 420

\* The upper end of the lag grid, and of the lag prior.
MaxLag == 1000

\* The margin of the prediction grid around the lagged times.
GridMargin == 200

\* An optional argument: None, or Some(x).
None == <<>>
Some(x) == <<x>>

\* The float that compares False with everything.
NaN == -1

\* The dict objects: true_params, the dict made by dict(true_params), and
\* soln.params of each grid point.
TrueObj == 0
InitObj == 1
SolnObj(k) == 1 + k
Objects == 0..(1 + GridSize)

\* an exception that is swallowed: the run goes on
AfterRaiseContinue(next) == next

\* The pc after an exception in a cell: the run of the notebook stops.
AfterRaise(next) == "failed"

-----------------------------------------------------------------------------
(* The train / held-out mask.                                              *)

\* m.at[:n].set(v)
AtSetHead(m, n, v) == [i \in 1..Len(m) |-> IF i <= n THEN v ELSE m[i]]

\* m.at[-n:].set(v) with the slice one short
AtSetTailShort(m, n, v) == [i \in 1..Len(m) |-> IF i > Len(m) - n + 1 THEN v ELSE m[i]]

\* m.at[-n:].set(v)
AtSetTail(m, n, v) == [i \in 1..Len(m) |-> IF i > Len(m) - n THEN v ELSE m[i]]

\* The outcomes of uniform(key_split, (n,)) < 0.7 that are explored.
RECURSIVE Flipped(_, _)
Flipped(n, k) ==
    IF k = 0
    THEN {[i \in 1..n |-> TRUE], [i \in 1..n |-> FALSE]}
    ELSE LET P == Flipped(n, k - 1)
         IN  P \cup {[d EXCEPT ![i] = ~@] : d \in P, i \in 1..n}

Draws(n) == Flipped(n, MaxFlips)

\* mask_train, from the outcome of uniform(key_split, (N,)) < 0.7
MaskTrain(draws) == AtSetTail(AtSetHead(draws, Boundary, FALSE), Boundary, FALSE)

\* the indices selected by t[m], y[m]
Select(m) == {i \in 1..Len(m) : m[i]}

\* ~m
Invert(m) == [i \in 1..Len(m) |-> ~m[i]]

-----------------------------------------------------------------------------
(* The probabilistic model of the assessment notebook, as the sites it     *)
(* declares.  Observations are named by their index in t, y.  "target" are *)
(* the sites that enter the sampler's log density, each with the           *)
(* observations whose likelihood it holds; "derived" are the deterministic *)
(* sites, each with the observations it is conditioned on and scores.      *)

Site(name, cond, obs) == [site |-> name, cond |-> cond, obs |-> obs]

\* model with the held-out log-probability added to the target as well
modelLeak(kernel_builder, t_train, t_test, t_pred) ==
    [kernel  |-> kernel_builder,
     target  |-> IF t_test = None
                 THEN {Site("y_train", {}, t_train)}
                 ELSE {Site("log_prob_train", {}, t_train),
                       Site("log_prob_test", t_train, t_test[1])},
     derived |-> IF t_pred = None
                 THEN {}
                 ELSE {Site("mean_pred", t_train, {}), Site("std_pred", t_train, {})}]

model(kernel_builder, t_train, t_test, t_pred) ==
    [kernel  |-> kernel_builder,
     target  |-> IF t_test = None
                 THEN {Site("y_train", {}, t_train)}
                 ELSE {Site("log_prob_train", {}, t_train)},
     derived |-> (IF t_test = None
                  THEN {}
                  ELSE {Site("log_prob_test", t_train, t_test[1])})
                 \cup
                 (IF t_pred = None
                  THEN {}
                  ELSE {Site("mean_pred", t_train, {}), Site("std_pred", t_train, {})})]

\* The three candidates, by the builder each sampler is given.
Kernels == {"build_exp_sq", "build_matern", "build_raquad"}

MCMCSites == {"mcmc_exp_sq", "mcmc_matern", "mcmc_raquad"}
NSSites == {"ns_exp_sq", "ns_matern", "ns_raquad"}
CallSites == {"optimize"} \cup MCMCSites \cup NSSites

\* sampler_exp_sq / sampler_matern / sampler_raquad and ns_exp_sq / ns_matern / ns_raquad
BuilderOf(site) ==
    CASE site \in {"mcmc_exp_sq", "ns_exp_sq"} -> "build_exp_sq"
      [] site \in {"mcmc_matern", "ns_matern", "optimize"} -> "build_matern"
      [] site \in {"mcmc_raquad", "ns_raquad"} -> "build_raquad"

\* The cells of the notebook in the order they stand in the file.
ACells == <<"simulate", "optimize", "mcmc_exp_sq", "mcmc_matern", "mcmc_raquad",
            "hist", "ns_exp_sq", "ns_matern", "ns_raquad", "evidence", "figure", "done">>

\* the next cell, with the first sampler run again after the last evidence run
ANextCellRerun(c) ==
    IF c = "ns_raquad"
    THEN "mcmc_exp_sq"
    ELSE ACells[(CHOOSE i \in 1..Len(ACells) : ACells[i] = c) + 1]

ANextCell(c) == ACells[(CHOOSE i \in 1..Len(ACells) : ACells[i] = c) + 1]

\* What a call was given and what it returned.
Run(trace, t_train, t_test, value) ==
    [trace |-> trace, t_train |-> t_train, t_test |-> t_test, value |-> value]

AllObs == 1..N

\* optimize(mod)(key, t[mask_train], y[mask_train], t_pred=t_pred)
OptimizeCall == Run(model(BuilderOf("optimize"), Select(mask_train), None, Some("t_pred")),
                    Select(mask_train), None, 0)

\* sampler.run(key, t[mask_train], y[mask_train], t[~mask_train], y[~mask_train])
MCMCCall(site, value) ==
    Run(model(BuilderOf(site), Select(mask_train), Some(Select(Invert(mask_train))), None),
        Select(mask_train), Some(Select(Invert(mask_train))), value)

\* ns.run given the training observations only
NSCallTrain(site, value) ==
    Run(model(BuilderOf(site), Select(mask_train), None, None), Select(mask_train), None, value)

\* ns.run(key, t, y)
NSCall(site, value) == Run(model(BuilderOf(site), AllObs, None, None), AllObs, None, value)

\* The curves of the held-out log-probability histogram, in plotting order:
\* the label and the inference data each curve is drawn from.
Curve(label, site) == [label |-> label, from |-> site,
                       kernel |-> runs[site][1].trace.kernel, value |-> runs[site][1].value]

\* the histogram with the curves in the order the runs were made
HistCurvesRunOrder == <<Curve("squared exp.", "mcmc_exp_sq"),
                        Curve("Matern-3/2", "mcmc_matern"),
                        Curve("rational quad.", "mcmc_raquad")>>

HistCurves == <<Curve("squared exp.", "mcmc_exp_sq"),
                Curve("rational quad.", "mcmc_raquad"),
                Curve("Matern-3/2", "mcmc_matern")>>

\* names, log_Z and log_Z_uncert of the evidence plot, position by position.
names == <<"squared exp.", "rational quad.", "Matern-3/2">>
log_Z == <<"ns_exp_sq", "ns_raquad", "ns_matern">>
\* log_Z_uncert listed in the order the runs were made
log_Z_uncert_run_order == <<"ns_exp_sq", "ns_matern", "ns_raquad">>

log_Z_uncert == <<"ns_exp_sq", "ns_raquad", "ns_matern">>

EvidencePoints ==
    [i \in 1..Len(names) |->
        [label |-> names[i], from |-> log_Z[i], uncert_from |-> log_Z_uncert[i],
         kernel |-> runs[log_Z[i]][1].trace.kernel, value |-> runs[log_Z[i]][1].value]]

-----------------------------------------------------------------------------
(* The cells of the assessment notebook.                                   *)

\* t, y and yerr of the simulation cell, as what they are computed from.
Observations == [t |-> "sort(uniform(key_t))", y |-> "gp.sample(key_y)", yerr |-> "0.25"]

AInit ==
    /\ apc = "simulate"
    /\ N \in 0..MaxN
    /\ dataset = None
    /\ mask_train = <<>>
    /\ runs = [s \in CallSites |-> None]
    /\ calls = [s \in CallSites |-> 0]
    /\ hist = <<>>
    /\ evid = <<>>
    /\ fig = None
    \* the quasar notebook is not run
    /\ qpc = "idle"
    /\ data = <<>>
    /\ X = None
    /\ diag = <<>>
    /\ y = <<>>
    /\ loss_true = NaN
    /\ heap = [o \in Objects |-> None]
    /\ init = TrueObj
    /\ minimum = None
    /\ lags = <<>>
    /\ vals = <<>>
    /\ gi = 0
    /\ qcalls = [k \in 0..GridSize |-> 0]
    /\ init_params = None
    /\ t_grid = None
    /\ truths = None
    /\ samples = None
    /\ fn = None

Simulate ==
    /\ apc = "simulate"
    /\ dataset' = Some(Observations)
    /\ \E draws \in Draws(N) : mask_train' = MaskTrain(draws)
    /\ apc' = ANextCell(apc)
    /\ UNCHANGED <<N, runs, calls, hist, evid, fig>>
    /\ UNCHANGED NotAssess

Optimize ==
    /\ apc = "optimize"
    /\ calls' = [calls EXCEPT !["optimize"] = @ + 1]
    /\ \/ /\ runs' = [runs EXCEPT !["optimize"] = Some(OptimizeCall)]
          /\ apc' = ANextCell(apc)
       \/ /\ apc' = AfterRaise(ANextCell(apc))
          /\ UNCHANGED runs
    /\ UNCHANGED <<N, dataset, mask_train, hist, evid, fig>>
    /\ UNCHANGED NotAssess

RunMCMC ==
    /\ apc \in MCMCSites
    /\ calls' = [calls EXCEPT ![apc] = @ + 1]
    /\ \/ /\ \E v \in Scores : runs' = [runs EXCEPT ![apc] = Some(MCMCCall(apc, v))]
          /\ apc' = ANextCell(apc)
       \/ /\ apc' = AfterRaise(ANextCell(apc))
          /\ UNCHANGED runs
    /\ UNCHANGED <<N, dataset, mask_train, hist, evid, fig>>
    /\ UNCHANGED NotAssess

PlotHist ==
    /\ apc = "hist"
    /\ hist' = HistCurves
    /\ apc' = ANextCell(apc)
    /\ UNCHANGED <<N, dataset, mask_train, runs, calls, evid, fig>>
    /\ UNCHANGED NotAssess

RunNS ==
    /\ apc \in NSSites
    /\ calls' = [calls EXCEPT ![apc] = @ + 1]
    /\ \/ /\ \E v \in Scores : runs' = [runs EXCEPT ![apc] = Some(NSCall(apc, v))]
          /\ apc' = ANextCell(apc)
       \/ /\ apc' = AfterRaise(ANextCell(apc))
          /\ UNCHANGED runs
    /\ UNCHANGED <<N, dataset, mask_train, hist, evid, fig>>
    /\ UNCHANGED NotAssess

PlotEvidence ==
    /\ apc = "evidence"
    /\ evid' = EvidencePoints
    /\ apc' = ANextCell(apc)
    /\ UNCHANGED <<N, dataset, mask_train, runs, calls, hist, fig>>
    /\ UNCHANGED NotAssess

Figure ==
    /\ apc = "figure"
    /\ fig' = Some([A |-> runs["optimize"][1], B |-> EvidencePoints, C |-> HistCurves])
    /\ apc' = ANextCell(apc)
    /\ UNCHANGED <<N, dataset, mask_train, runs, calls, hist, evid>>
    /\ UNCHANGED NotAssess

ANext == Simulate \/ Optimize \/ RunMCMC \/ PlotHist \/ RunNS \/ PlotEvidence \/ Figure

-----------------------------------------------------------------------------
(* The quasar notebook: coordinates, the GP builder and the simulation.    *)

\* The tables explored: 1..MaxObs rows, jd a multiple of the true lag.
Tables == UNION {[1..n -> {j * TrueLag : j \in 0..MaxJd}] : n \in 1..MaxObs}

Const(n, v) == [i \in 1..n |-> v]

\* X = concatenate((jd, jd)), concatenate((zeros(N), ones(N)))
Coordinates(jd) == [t |-> jd \o jd, band |-> Const(Len(jd), 0) \o Const(Len(jd), 1)]

\* diag = concatenate((a_mag_err, b_mag_err)) ** 2, each entry named by its observation
Uncertainties(jd) == [i \in 1..(2 * Len(jd)) |-> i]

time_delay_transform(lag, XX) == [i \in 1..Len(XX.t) |-> XX.t[i] - lag * XX.band[i]]

mean_func(means, XX) == [i \in 1..Len(XX.t) |-> means[XX.band[i] + 1]]

\* jnp.argsort(t): the stable sort.  The place of entry i in sorted order is
\* one more than the number of entries that go before it.
Place(t, i) ==
    1 + Cardinality({j \in 1..Len(t) : t[j] < t[i] \/ (t[j] = t[i] /\ j < i)})

argsort(t) == [r \in 1..Len(t) |-> CHOOSE i \in 1..Len(t) : Place(t, i) = r]

\* a[inds]
Take(a, inds) == [i \in 1..Len(inds) |-> a[inds[i]]]

\* build_gp with the uncertainties left in the order of the table
build_gp_diag_unsorted(params, XX, dd) ==
    LET band == XX.band
        t == time_delay_transform(params.lag, XX)
        inds == argsort(t)
    IN  [gp |-> [t |-> Take(t, inds), band |-> Take(band, inds), diag |-> dd,
                 amplitudes |-> params.amps, log_ell |-> params.log_ell,
                 mean |-> params.means],
         inds |-> inds]

\* The GP is given as the arrays it is built from.
build_gp(params, XX, dd) ==
    LET band == XX.band
        t == time_delay_transform(params.lag, XX)
        inds == argsort(t)
    IN  [gp |-> [t |-> Take(t, inds), band |-> Take(band, inds), diag |-> Take(dd, inds),
                 amplitudes |-> params.amps, log_ell |-> params.log_ell,
                 mean |-> params.means],
         inds |-> inds]

TrueParams == [lag |-> TrueLag, log_ell |-> "log(100)", amps |-> <<8, 12>>,
               means |-> <<1743, 1753>>]

\* What an uninitialised array may hold.
Uninit == {-1, -2}

\* gp.sample(key): one value per point of the GP, in the GP's order.
Sample(n) == [j \in 1..n |-> j]

\* a.at[inds].set(v) that misses the last index of inds
AtSetButLast(a, inds, v) ==
    [i \in 1..Len(a) |->
        IF \E j \in 1..(Len(inds) - 1) : inds[j] = i
        THEN v[CHOOSE j \in 1..(Len(inds) - 1) : inds[j] = i]
        ELSE a[i]]

\* a.at[inds].set(v)
AtSet(a, inds, v) ==
    [i \in 1..Len(a) |->
        IF \E j \in 1..Len(inds) : inds[j] = i
        THEN v[CHOOSE j \in 1..Len(inds) : inds[j] = i /\ \A k \in 1..Len(inds) : inds[k] = i => k <= j]
        ELSE a[i]]

\* the simulation with the sample gathered, y = sample[inds], not scattered
SimulateYGather(jd, empty) ==
    LET b == build_gp(TrueParams, Coordinates(jd), Uncertainties(jd))
    IN  Take(Sample(Len(b.inds)), b.inds)

\* y = jnp.empty_like(y); y = y.at[inds].set(gp.sample(key)), from what the
\* fresh array happened to hold
SimulateY(jd, empty) ==
    LET b == build_gp(TrueParams, Coordinates(jd), Uncertainties(jd))
    IN  AtSet(empty, b.inds, Sample(Len(b.inds)))

-----------------------------------------------------------------------------
(* The quasar notebook: the lag sweep.                                     *)

Losses == 0..MaxLoss

\* the comparison turned around
IsHigher(a, b) == a # NaN /\ b # NaN /\ a > b

\* soln.state.fun_val < minimum[0], on floats
IsLower(a, b) == a # NaN /\ b # NaN /\ a < b

\* jnp.linspace(0, MaxLag, GridSize)
Grid == [k \in 1..GridSize |-> IF GridSize = 1 THEN 0 ELSE ((k - 1) * MaxLag) \div (GridSize - 1)]

\* The values the optimizer may return for the other parameters.
Fitted == [log_ell |-> "fitted", amps |-> <<9, 11>>, means |-> <<1744, 1752>>]

\* soln.params of a run started at p
Solutions(p) ==
    {[lag |-> l, log_ell |-> Fitted.log_ell, amps |-> Fitted.amps, means |-> Fitted.means] :
        l \in {p.lag, p.lag + MaxDrift}}

QInit ==
    /\ qpc = "simulate"
    /\ data \in Tables
    /\ X = None
    /\ diag = <<>>
    /\ y = <<>>
    /\ loss_true = NaN
    /\ heap = [o \in Objects |-> None]
    /\ init = TrueObj
    /\ minimum = None
    /\ lags = <<>>
    /\ vals = <<>>
    /\ gi = 0
    /\ qcalls = [k \in 0..GridSize |-> 0]
    /\ init_params = None
    /\ t_grid = None
    /\ truths = None
    /\ samples = None
    \* the assessment notebook is not run
    /\ apc = "idle"
    /\ N = 0
    /\ dataset = None
    /\ mask_train = <<>>
    /\ runs = [s \in CallSites |-> None]
    /\ calls = [s \in CallSites |-> 0]
    /\ hist = <<>>
    /\ evid = <<>>
    /\ fig = None
    /\ fn = None

\* The cell that builds X, y, diag, defines build_gp and loss, sets
\* true_params and simulates y.
QSimulate ==
    /\ qpc = "simulate"
    /\ X' = Some(Coordinates(data))
    /\ diag' = Uncertainties(data)
    /\ \E empty \in [1..(2 * Len(data)) -> Uninit] : y' = SimulateY(data, empty)
    /\ heap' = [heap EXCEPT ![TrueObj] = Some(TrueParams)]
    /\ \E l \in Losses : loss_true' = l
    /\ qpc' = "sweep_start"
    /\ UNCHANGED <<data, init, minimum, lags, vals, gi, qcalls, init_params, t_grid, truths>>
    /\ UNCHANGED NotQuasar
    /\ UNCHANGED samples

\* the start of the sweep with init = true_params, the same dict and no copy
SweepStartAlias ==
    /\ qpc = "sweep_start"
    /\ init' = TrueObj
    /\ minimum' = Some(<<loss_true, TrueObj>>)
    /\ lags' = <<>>
    /\ vals' = <<>>
    /\ gi' = 1
    /\ qpc' = IF GridSize >= 1 THEN "sweep" ELSE "sweep_end"
    /\ UNCHANGED <<data, X, diag, y, loss_true, heap, qcalls, init_params, t_grid, truths>>
    /\ UNCHANGED NotQuasar
    /\ UNCHANGED samples

\* init = dict(true_params); minimum = loss(init), init; lags = []; vals = []
SweepStart ==
    /\ qpc = "sweep_start"
    /\ heap' = [heap EXCEPT ![InitObj] = heap[TrueObj]]
    /\ init' = InitObj
    /\ minimum' = Some(<<loss_true, InitObj>>)
    /\ lags' = <<>>
    /\ vals' = <<>>
    /\ gi' = 1
    /\ qpc' = IF GridSize >= 1 THEN "sweep" ELSE "sweep_end"
    /\ UNCHANGED <<data, X, diag, y, loss_true, qcalls, init_params, t_grid, truths>>
    /\ UNCHANGED NotQuasar
    /\ UNCHANGED samples

\* One pass of the loop body, for the grid point gi.
SweepStep ==
    /\ qpc = "sweep"
    /\ qcalls' = [qcalls EXCEPT ![gi] = @ + 1]
    /\ LET started == [heap[init][1] EXCEPT !.lag = Grid[gi]]
       IN  \/ \E soln \in Solutions(started), fun_val \in Losses \cup {NaN} :
                /\ heap' = [heap EXCEPT ![init] = Some(started),
                                        ![SolnObj(gi)] = Some(soln)]
                /\ lags' = Append(lags, soln.lag)
                /\ vals' = Append(vals, fun_val)
                /\ minimum' = IF IsLower(fun_val, minimum[1][1])
                              THEN Some(<<fun_val, SolnObj(gi)>>)
                              ELSE minimum
                /\ gi' = gi + 1
                /\ qpc' = IF gi < GridSize THEN "sweep" ELSE "sweep_end"
           \/ /\ heap' = [heap EXCEPT ![init] = Some(started)]
              /\ qpc' = AfterRaise("sweep")
              /\ UNCHANGED <<lags, vals, minimum, gi>>
    /\ UNCHANGED <<data, X, diag, y, loss_true, init, init_params, t_grid, truths>>
    /\ UNCHANGED NotQuasar
    /\ UNCHANGED samples

\* init = minimum[1], and the plot of vals against lags
SweepEnd ==
    /\ qpc = "sweep_end"
    /\ init' = minimum[1][2]
    /\ qpc' = "t_grid"
    /\ UNCHANGED <<data, X, diag, y, loss_true, heap, minimum, lags, vals, gi, qcalls,
                   init_params, t_grid, truths>>
    /\ UNCHANGED NotQuasar
    /\ UNCHANGED samples

SeqMin(q) == CHOOSE v \in {q[i] : i \in 1..Len(q)} : \A i \in 1..Len(q) : v <= q[i]
SeqMax(q) == CHOOSE v \in {q[i] : i \in 1..Len(q)} : \A i \in 1..Len(q) : v >= q[i]

\* the cell with the times of X shifted in place
TGridInPlace ==
    /\ qpc = "t_grid"
    /\ LET t_lagged == time_delay_transform(heap[minimum[1][2]][1].lag, X[1])
       IN  /\ X' = Some([X[1] EXCEPT !.t = t_lagged])
           /\ t_grid' = Some(<<SeqMin(t_lagged) - GridMargin, SeqMax(t_lagged) + GridMargin>>)
    /\ qpc' = "mcmc"
    /\ UNCHANGED <<data, diag, y, loss_true, heap, init, minimum, lags, vals, gi, qcalls,
                   init_params, truths>>
    /\ UNCHANGED NotQuasar
    /\ UNCHANGED samples

\* t_lagged = X[0] - minimum[1]["lag"] * X[1]; t_grid = linspace(min - 200, max + 200, 1000)
TGrid ==
    /\ qpc = "t_grid"
    /\ LET t_lagged == time_delay_transform(heap[minimum[1][2]][1].lag, X[1])
       IN  t_grid' = Some(<<SeqMin(t_lagged) - GridMargin, SeqMax(t_lagged) + GridMargin>>)
    /\ qpc' = "mcmc"
    /\ UNCHANGED <<data, X, diag, y, loss_true, heap, init, minimum, lags, vals, gi, qcalls,
                   init_params, truths>>
    /\ UNCHANGED NotQuasar
    /\ UNCHANGED samples

\* init_params = dict(minimum[1]) with mean_a and delta_mean added
InitParams(p) ==
    [lag |-> p.lag, log_ell |-> p.log_ell, amps |-> p.amps, means |-> p.means,
     mean_a |-> p.means[1], delta_mean |-> p.means[2] - p.means[1]]

\* The cell that defines the model, sets init_params and runs the sampler.
QRunMCMC ==
    /\ qpc = "mcmc"
    /\ init_params' = Some(InitParams(heap[minimum[1][2]][1]))
    /\ qcalls' = [qcalls EXCEPT ![0] = @ + 1]
    /\ \/ /\ samples' = Some("posterior")
          /\ qpc' = "plots"
       \/ /\ qpc' = AfterRaise("plots")
          /\ UNCHANGED samples
    /\ UNCHANGED <<data, X, diag, y, loss_true, heap, init, minimum, lags, vals, gi,
                   t_grid, truths>>
    /\ UNCHANGED NotQuasar

\* The summary and the plots; the posterior plot marks the true lag and the
\* true difference of the means.
QPlots ==
    /\ qpc = "plots"
    /\ LET p == heap[TrueObj][1] IN truths' = Some(<<p.lag, p.means[2] - p.means[1]>>)
    /\ qpc' = "done"
    /\ UNCHANGED <<data, X, diag, y, loss_true, heap, init, minimum, lags, vals, gi, qcalls,
                   init_params, t_grid>>
    /\ UNCHANGED NotQuasar
    /\ UNCHANGED samples

QNext == QSimulate \/ SweepStart \/ SweepStep \/ SweepEnd \/ TGrid \/ QRunMCMC \/ QPlots

\* A run of the assessment notebook.
SpecAssess == AInit /\ [][ANext]_vars

\* A run of the quasar notebook.
SpecQuasar == QInit /\ [][QNext]_vars

\* A run of either notebook.
Init == AInit \/ QInit
Next == ANext \/ QNext
Spec == Init /\ [][Next]_vars

-----------------------------------------------------------------------------
(* The Multiband kernel wrapper.  A coordinate is <<t, band>>; amplitudes   *)
(* is indexed by band; h is the observation model of the wrapped kernel.   *)

\* Multiband.coord_to_sortable
coord_to_sortable(XX) == XX[1]

\* observation_model that ignores the band
observation_model_band0(amplitudes, h, XX) == amplitudes[1] * h[XX[1]]

\* Multiband.observation_model
observation_model(amplitudes, h, XX) == amplitudes[XX[2] + 1] * h[XX[1]]

\* The covariance of two observations: the two observation models times a
\* factor of the wrapper's sortable coordinates.
Covariance(amplitudes, h, X1, X2) ==
    LET s1 == coord_to_sortable(X1)
        s2 == coord_to_sortable(X2)
    IN  observation_model(amplitudes, h, X1) * observation_model(amplitudes, h, X2)
            * (1 + (s1 - s2) * (s1 - s2))

\* The relabeling: band b becomes 1 - b, and the amplitudes are swapped.
SwapBand(XX) == <<XX[1], 1 - XX[2]>>
SwapAmps(amplitudes) == <<amplitudes[2], amplitudes[1]>>

Coords == (0..MaxT) \X {0, 1}

MInit ==
    /\ fn \in [op : {"multiband"}, amplitudes : (-1..MaxAmp) \X (-1..MaxAmp),
               h : [0..MaxT -> 1..2], X1 : Coords, X2 : Coords, out : {None}]
    \* no notebook is run
    /\ apc = "idle"
    /\ N = 0
    /\ dataset = None
    /\ mask_train = <<>>
    /\ runs = [s \in CallSites |-> None]
    /\ calls = [s \in CallSites |-> 0]
    /\ hist = <<>>
    /\ evid = <<>>
    /\ fig = None
    /\ qpc = "idle"
    /\ data = <<>>
    /\ X = None
    /\ diag = <<>>
    /\ y = <<>>
    /\ loss_true = NaN
    /\ heap = [o \in Objects |-> None]
    /\ init = TrueObj
    /\ minimum = None
    /\ lags = <<>>
    /\ vals = <<>>
    /\ gi = 0
    /\ qcalls = [k \in 0..GridSize |-> 0]
    /\ init_params = None
    /\ t_grid = None
    /\ truths = None
    /\ samples = None

\* Evaluate the kernel on the coordinates as given and as relabeled.
Evaluate ==
    /\ fn.op = "multiband"
    /\ fn.out = None
    /\ LET a == fn.amplitudes
           sa == SwapAmps(fn.amplitudes)
       IN  fn' = [fn EXCEPT !.out = Some(
                    [obs |-> observation_model(a, fn.h, fn.X1),
                     obs_swapped |-> observation_model(sa, fn.h, SwapBand(fn.X1)),
                     cov |-> Covariance(a, fn.h, fn.X1, fn.X2),
                     cov_swapped |-> Covariance(sa, fn.h, SwapBand(fn.X1), SwapBand(fn.X2)),
                     sortable |-> coord_to_sortable(fn.X1),
                     sortable_swapped |-> coord_to_sortable(SwapBand(fn.X1))])]
    /\ UNCHANGED <<avars, qvars>>

SpecMultiband == MInit /\ [][Evaluate]_vars

-----------------------------------------------------------------------------
(* Running a simulation cell again with the same seed.                     *)

\* The assessment simulation: t, y and the mask, from the outcomes of the
\* generator for key_t, key_y and key_split.
AssessSimulation(draws) ==
    [t |-> "sort(uniform(key_t))", y |-> "gp.sample(key_y)", mask |-> MaskTrain(draws)]

\* The quasar simulation: X, diag and y, from the table and from what the
\* fresh array held.
QuasarSimulation(jd, empty) ==
    [t |-> Coordinates(jd), y |-> SimulateY(jd, empty), mask |-> Uncertainties(jd)]

\* The transit simulation: t is a fixed grid and y = gp.sample(PRNGKey(1047)).
TransitSimulation == [t |-> "linspace(-0.2, 0.2, 75)", y |-> "gp.sample(key)", mask |-> <<>>]

RInit ==
    /\ \/ \E n \in 0..MaxN : \E d \in Draws(n) :
            fn = [op |-> "rerun", exp |-> "assessment", draws |-> d, jd |-> <<>>, outs |-> <<>>]
       \/ \E jd \in Tables :
            fn = [op |-> "rerun", exp |-> "quasar", draws |-> <<>>, jd |-> jd, outs |-> <<>>]
       \/ fn = [op |-> "rerun", exp |-> "transit", draws |-> <<>>, jd |-> <<>>, outs |-> <<>>]
    \* no notebook is run
    /\ apc = "idle"
    /\ N = 0
    /\ dataset = None
    /\ mask_train = <<>>
    /\ runs = [s \in CallSites |-> None]
    /\ calls = [s \in CallSites |-> 0]
    /\ hist = <<>>
    /\ evid = <<>>
    /\ fig = None
    /\ qpc = "idle"
    /\ data = <<>>
    /\ X = None
    /\ diag = <<>>
    /\ y = <<>>
    /\ loss_true = NaN
    /\ heap = [o \in Objects |-> None]
    /\ init = TrueObj
    /\ minimum = None
    /\ lags = <<>>
    /\ vals = <<>>
    /\ gi = 0
    /\ qcalls = [k \in 0..GridSize |-> 0]
    /\ init_params = None
    /\ t_grid = None
    /\ truths = None
    /\ samples = None

RunAssessSimulation ==
    /\ fn.op = "rerun"
    /\ fn.exp = "assessment"
    /\ Len(fn.outs) < 2
    /\ fn' = [fn EXCEPT !.outs = Append(@, AssessSimulation(fn.draws))]
    /\ UNCHANGED <<avars, qvars>>

RunQuasarSimulation ==
    /\ fn.op = "rerun"
    /\ fn.exp = "quasar"
    /\ Len(fn.outs) < 2
    /\ \E empty \in [1..(2 * Len(fn.jd)) -> Uninit] :
          fn' = [fn EXCEPT !.outs = Append(@, QuasarSimulation(fn.jd, empty))]
    /\ UNCHANGED <<avars, qvars>>

RunTransitSimulation ==
    /\ fn.op = "rerun"
    /\ fn.exp = "transit"
    /\ Len(fn.outs) < 2
    /\ fn' = [fn EXCEPT !.outs = Append(@, TransitSimulation)]
    /\ UNCHANGED <<avars, qvars>>

RNext == RunAssessSimulation \/ RunQuasarSimulation \/ RunTransitSimulation

SpecRerun == RInit /\ [][RNext]_vars

-----------------------------------------------------------------------------
(* The inference cells of the assessment notebook run in an order the user *)
(* chooses, and once more, in another order, after a restart of the kernel.*)

\* The number of inference runs made so far in this session of the kernel.
Ran == Cardinality({s \in CallSites : runs[s] # None})

\* a key taken from a generator that every run advances
RunKeyAdvancing(ran) == ran

\* The key a run is given: jax.random.PRNGKey(0), whatever ran before.
RunKey(ran) == 0

\* What a sampler returns: the library is a function of what it is given,
\* the model and the data (in the record of the run) and the key.
Sampled(key) == [samples_of_key |-> key]

\* The first site run in each pass.
Lead(s) == IF Len(fn.lead) < fn.pass THEN [fn EXCEPT !.lead = Append(@, s)] ELSE fn

\* The state after the simulation cell, with the samplers defined.
OInit ==
    /\ apc = "any_order"
    /\ N \in 0..MaxN
    /\ dataset = Some(Observations)
    /\ \E draws \in Draws(N) : mask_train = MaskTrain(draws)
    /\ runs = [s \in CallSites |-> None]
    /\ calls = [s \in CallSites |-> 0]
    /\ hist = <<>>
    /\ evid = <<>>
    /\ fig = None
    /\ fn = [op |-> "order", pass |-> 1, first |-> <<>>, lead |-> <<>>]
    \* the quasar notebook is not run
    /\ qpc = "idle"
    /\ data = <<>>
    /\ X = None
    /\ diag = <<>>
    /\ y = <<>>
    /\ loss_true = NaN
    /\ heap = [o \in Objects |-> None]
    /\ init = TrueObj
    /\ minimum = None
    /\ lags = <<>>
    /\ vals = <<>>
    /\ gi = 0
    /\ qcalls = [k \in 0..GridSize |-> 0]
    /\ init_params = None
    /\ t_grid = None
    /\ truths = None
    /\ samples = None

\* One of the three sampler.run cells, whichever the user runs next.
RunMCMCAnyOrder ==
    /\ apc = "any_order"
    /\ \E s \in MCMCSites :
          /\ runs[s] = None
          /\ runs' = [runs EXCEPT ![s] = Some(MCMCCall(s, Sampled(RunKey(Ran))))]
          /\ calls' = [calls EXCEPT ![s] = @ + 1]
          /\ fn' = Lead(s)
    /\ UNCHANGED <<apc, N, dataset, mask_train, hist, evid, fig>>
    /\ UNCHANGED qvars

\* One of the three ns.run cells, whichever the user runs next.
RunNSAnyOrder ==
    /\ apc = "any_order"
    /\ \E s \in NSSites :
          /\ runs[s] = None
          /\ runs' = [runs EXCEPT ![s] = Some(NSCall(s, Sampled(RunKey(Ran))))]
          /\ calls' = [calls EXCEPT ![s] = @ + 1]
          /\ fn' = Lead(s)
    /\ UNCHANGED <<apc, N, dataset, mask_train, hist, evid, fig>>
    /\ UNCHANGED qvars

\* The kernel is restarted and the cells up to the samplers are run again:
\* the same seed gives the same data and the same mask.  The results of the
\* first pass are kept aside.
Restart ==
    /\ apc = "any_order"
    /\ fn.pass = 1
    /\ \A s \in MCMCSites \cup NSSites : runs[s] # None
    /\ fn' = [fn EXCEPT !.pass = 2, !.first = runs]
    /\ runs' = [s \in CallSites |-> None]
    /\ calls' = [s \in CallSites |-> 0]
    /\ UNCHANGED <<apc, N, dataset, mask_train, hist, evid, fig>>
    /\ UNCHANGED qvars

ONext == RunMCMCAnyOrder \/ RunNSAnyOrder \/ Restart

SpecOrder == OInit /\ [][ONext]_vars

-----------------------------------------------------------------------------
(* The transit notebook (src/src/scripts/transit.ipynb).  Its state is the *)
(* record fn: the cell to run next, the data and the two fits.  A model is *)
(* the sequence of the sites it declares, in the order of the code.        *)

\* Largest number of observations of the transit explored (the notebook has 75).
MaxTransitN == 4

\* numpyro.sample(name, prior)
Sample_(name) == [kind |-> "sample", site |-> name, of |-> <<>>]

\* numpyro.sample(name, likelihood, obs=y)
Observed(name, likelihood, yy) == [kind |-> "observed", site |-> name, of |-> <<likelihood, yy>>]

\* numpyro.deterministic(name, value)
Deterministic(name, value) == [kind |-> "deterministic", site |-> name, of |-> <<value>>]

\* model with the GP hyperparameters declared outside the branch
transit_model_gp_params_always(t, y_err, yy, use_gp) ==
    [params |-> [log_duration |-> "log(0.12)", b |-> "0.1"],
     sites  |-> <<Sample_("log_jitter"), Sample_("log_f0"), Sample_("u"), Sample_("t0"),
                  Sample_("log_r"), Deterministic("r", "exp(log_r)"),
                  Sample_("log_amp"), Sample_("log_ell")>>
                \o (IF use_gp
                    THEN <<Observed("y", "gp", yy),
                           Deterministic("mu", "gp.mean_function(t_grid)"),
                           Deterministic("gp", "gp.condition(y, t_grid)")>>
                    ELSE <<Observed("y", "normal", yy),
                           Deterministic("mu", "light_curve(t_grid)")>>)]

\* model(t, y_err, y, use_gp) of the transit notebook
transit_model(t, y_err, yy, use_gp) ==
    [params |-> [log_duration |-> "log(0.12)", b |-> "0.1"],
     sites  |-> <<Sample_("log_jitter"), Sample_("log_f0"), Sample_("u"), Sample_("t0"),
                  Sample_("log_r"), Deterministic("r", "exp(log_r)")>>
                \o (IF use_gp
                    THEN <<Sample_("log_amp"), Sample_("log_ell"),
                           Observed("y", "gp", yy),
                           Deterministic("mu", "gp.mean_function(t_grid)"),
                           Deterministic("gp", "gp.condition(y, t_grid)")>>
                    ELSE <<Observed("y", "normal", yy),
                           Deterministic("mu", "light_curve(t_grid)")>>)]

\* infer.MCMC(infer.NUTS(model, ...), ...) of the fit without the GP
sampler_wn ==
    [kernel |-> "NUTS", dense_mass |-> TRUE, target_accept_prob |-> "0.9",
     init_strategy |-> "init_to_value(true_params)",
     num_warmup |-> 1000, num_samples |-> 2000, num_chains |-> 2, progress_bar |-> TRUE]

\* infer.MCMC(infer.NUTS(model, ...), ...) of the fit with the GP
sampler ==
    [kernel |-> "NUTS", dense_mass |-> TRUE, target_accept_prob |-> "0.9",
     init_strategy |-> "init_to_value(true_params)",
     num_warmup |-> 1000, num_samples |-> 2000, num_chains |-> 2, progress_bar |-> TRUE]

\* What a fit was run with.
Fit(settings, key, t, y_err, yy, use_gp) ==
    [settings |-> settings, key |-> key, t |-> t, y_err |-> y_err, y |-> yy,
     use_gp |-> use_gp, trace |-> transit_model(t, y_err, yy, use_gp)]

TInit ==
    /\ \E n \in 1..MaxTransitN :
          fn = [op |-> "transit", pc |-> "simulate", n |-> n, t |-> <<>>, y_err |-> None,
                y |-> <<>>, fits |-> [wn |-> None, gp |-> None], plots |-> None]
    \* the other notebooks are not run
    /\ apc = "idle"
    /\ N = 0
    /\ dataset = None
    /\ mask_train = <<>>
    /\ runs = [s \in CallSites |-> None]
    /\ calls = [s \in CallSites |-> 0]
    /\ hist = <<>>
    /\ evid = <<>>
    /\ fig = None
    /\ qpc = "idle"
    /\ data = <<>>
    /\ X = None
    /\ diag = <<>>
    /\ y = <<>>
    /\ loss_true = NaN
    /\ heap = [o \in Objects |-> None]
    /\ init = TrueObj
    /\ minimum = None
    /\ lags = <<>>
    /\ vals = <<>>
    /\ gi = 0
    /\ qcalls = [k \in 0..GridSize |-> 0]
    /\ init_params = None
    /\ t_grid = None
    /\ truths = None
    /\ samples = None

\* t = linspace(-0.2, 0.2, n); y_err = 0.001; y = gp.sample(PRNGKey(1047))
TSimulate ==
    /\ fn # None
    /\ fn.op = "transit"
    /\ fn.pc = "simulate"
    /\ \E yy \in [1..fn.n -> 0..1] :
          fn' = [fn EXCEPT !.t = [i \in 1..fn.n |-> i], !.y_err = Some("0.001"), !.y = yy,
                           !.pc = "fit_wn"]
    /\ UNCHANGED <<avars, qvars>>

\* sampler_wn.run(PRNGKey(11), t, y_err, y, use_gp=False)
TFitWN ==
    /\ fn # None
    /\ fn.op = "transit"
    /\ fn.pc = "fit_wn"
    /\ \/ fn' = [fn EXCEPT !.fits.wn = Some(Fit(sampler_wn, 11, fn.t, fn.y_err, fn.y, FALSE)),
                           !.pc = "fit_gp"]
       \/ fn' = [fn EXCEPT !.pc = AfterRaise("fit_gp")]
    /\ UNCHANGED <<avars, qvars>>

\* sampler.run(PRNGKey(12), t, y_err, y, use_gp=True)
TFitGP ==
    /\ fn # None
    /\ fn.op = "transit"
    /\ fn.pc = "fit_gp"
    /\ \/ fn' = [fn EXCEPT !.fits.gp = Some(Fit(sampler, 12, fn.t, fn.y_err, fn.y, TRUE)),
                           !.pc = "plots"]
       \/ fn' = [fn EXCEPT !.pc = AfterRaise("plots")]
    /\ UNCHANGED <<avars, qvars>>

\* The posterior plot and the light-curve plot of the two fits.
TPlots ==
    /\ fn # None
    /\ fn.op = "transit"
    /\ fn.pc = "plots"
    /\ fn' = [fn EXCEPT !.plots = Some(<<"transit_posteriors.pdf", "transit.pdf">>),
                        !.pc = "done"]
    /\ UNCHANGED <<avars, qvars>>

TNext == TSimulate \/ TFitWN \/ TFitGP \/ TPlots

\* A run of the transit notebook.
SpecTransit == TInit /\ [][TNext]_vars

\* A run of any of the three notebooks.
InitAll == AInit \/ QInit \/ TInit
NextAll == ANext \/ QNext \/ TNext
SpecAll == InitAll /\ [][NextAll]_vars

-----------------------------------------------------------------------------
(* The callers of the quasar build_gp, each as what it hands to the GP.    *)

\* Largest number of rows of the table the callers are evaluated on.
MaxRows == 2

\* loss(params): the GP and the values given to gp.log_probability
loss(params, XX, dd, yy) ==
    LET b == build_gp(params, XX, dd)
    IN  [gp |-> b.gp, inds |-> b.inds, y |-> Take(yy, b.inds)]

\* model(X, diag, y) of the quasar notebook at parameters params: the GP, the
\* observed values of the site y and the values the predictions condition on
quasar_model(params, XX, dd, yy) ==
    LET b == build_gp(params, XX, dd)
    IN  [gp |-> b.gp, inds |-> b.inds, y |-> Take(yy, b.inds),
         pred_a |-> Take(yy, b.inds), pred_b |-> Take(yy, b.inds)]

\* The simulation: the GP of the true parameters, its inds, the sample drawn
\* in the GP's order and the y it is written to.
simulation(jd, empty) ==
    LET b == build_gp(TrueParams, Coordinates(jd), Uncertainties(jd))
    IN  [gp |-> b.gp, inds |-> b.inds, sample |-> Sample(Len(b.inds)),
         y |-> SimulateY(jd, empty)]

\* The lags the callers are evaluated at: the grid, the true lag, what the
\* optimizer may drift to, and a negative lag.
LagsExplored ==
    {Grid[k] : k \in 1..GridSize} \cup {Grid[k] + MaxDrift : k \in 1..GridSize}
        \cup {TrueLag, 0 - TrueLag}

\* The values of y, each named by its observation.
ValuesByObservation(n) == [i \in 1..n |-> 100 + i]

GInit ==
    /\ \E jd \in UNION {[1..n -> {j * TrueLag : j \in 0..MaxJd}] : n \in 1..MaxRows} :
       \E lag \in LagsExplored :
          fn = [op |-> "build_gp", jd |-> jd, lag |-> lag,
                out |-> [loss |-> None, model |-> None, simulation |-> None]]
    \* no notebook is run
    /\ apc = "idle"
    /\ N = 0
    /\ dataset = None
    /\ mask_train = <<>>
    /\ runs = [s \in CallSites |-> None]
    /\ calls = [s \in CallSites |-> 0]
    /\ hist = <<>>
    /\ evid = <<>>
    /\ fig = None
    /\ qpc = "idle"
    /\ data = <<>>
    /\ X = None
    /\ diag = <<>>
    /\ y = <<>>
    /\ loss_true = NaN
    /\ heap = [o \in Objects |-> None]
    /\ init = TrueObj
    /\ minimum = None
    /\ lags = <<>>
    /\ vals = <<>>
    /\ gi = 0
    /\ qcalls = [k \in 0..GridSize |-> 0]
    /\ init_params = None
    /\ t_grid = None
    /\ truths = None
    /\ samples = None

EvalLoss ==
    /\ fn.op = "build_gp"
    /\ fn.out.loss = None
    /\ fn' = [fn EXCEPT !.out.loss =
                Some(loss([TrueParams EXCEPT !.lag = fn.lag], Coordinates(fn.jd),
                          Uncertainties(fn.jd), ValuesByObservation(2 * Len(fn.jd))))]
    /\ UNCHANGED <<avars, qvars>>

EvalModel ==
    /\ fn.op = "build_gp"
    /\ fn.out.model = None
    /\ fn' = [fn EXCEPT !.out.model =
                Some(quasar_model([lag |-> fn.lag, log_ell |-> Fitted.log_ell, amps |-> Fitted.amps,
                                   means |-> Fitted.means], Coordinates(fn.jd),
                                  Uncertainties(fn.jd), ValuesByObservation(2 * Len(fn.jd))))]
    /\ UNCHANGED <<avars, qvars>>

EvalSimulation ==
    /\ fn.op = "build_gp"
    /\ fn.out.simulation = None
    /\ \E empty \in [1..(2 * Len(fn.jd)) -> Uninit] :
          fn' = [fn EXCEPT !.out.simulation = Some(simulation(fn.jd, empty))]
    /\ UNCHANGED <<avars, qvars>>

GNext == EvalLoss \/ EvalModel \/ EvalSimulation

SpecBuildGp == GInit /\ [][GNext]_vars

-----------------------------------------------------------------------------
(* Properties of the assessment notebook.                                  *)

Simulated == apc # "simulate"
TrainSet == {i \in 1..N : mask_train[i]}
HeldOutSet == {i \in 1..N : ~mask_train[i]}
Done(s) == runs[s] # None

\* C1: once the data are simulated, the mask has N entries, its first 10 and
\* last 10 entries are False whatever was drawn, the training set and the
\* held-out set are disjoint, cover all N indices, their sizes sum to N, and
\* the training set has at most N - 20 elements.
MaskIsPartition ==
    Simulated =>
        /\ Len(mask_train) = N
        /\ \A i \in 1..N : (i <= Boundary \/ i > N - Boundary) => ~mask_train[i]
        /\ Select(mask_train) \cap Select(Invert(mask_train)) = {}
        /\ Select(mask_train) \cup Select(Invert(mask_train)) = 1..N
        /\ Cardinality(Select(mask_train)) + Cardinality(Select(Invert(mask_train))) = N
        /\ Cardinality(Select(mask_train)) = Cardinality({i \in 1..N : mask_train[i]})
        /\ (N >= 2 * Boundary => Cardinality(Select(mask_train)) <= N - 2 * Boundary)
        /\ (N < 2 * Boundary => Select(mask_train) = {})

\* a mask with both training points and a held-out point between the two
\* excluded boundaries
MaskWitness ==
    /\ Simulated
    /\ Cardinality(Select(mask_train)) >= 2
    /\ \E i \in 1..N : i > Boundary /\ i <= N - Boundary /\ ~mask_train[i]

\* C8: every MCMC run is given exactly the mask-True observations as training
\* data and exactly the mask-False observations as test data, its target holds
\* the training log-probability only, the held-out log-probability is a derived
\* site, and no held-out observation enters the target of an MCMC run or of
\* the maximum-likelihood fit.
TrainingDataOnly ==
    \A s \in MCMCSites \cup {"optimize"} :
        Done(s) =>
            LET r == runs[s][1]
            IN  /\ r.t_train = TrainSet
                /\ \A f \in r.trace.target : f.obs = TrainSet /\ f.obs \cap HeldOutSet = {}
                /\ \A f \in r.trace.derived : f.cond = TrainSet
                /\ s \in MCMCSites =>
                      /\ r.t_test = Some(HeldOutSet)
                      /\ {f.site : f \in r.trace.target} = {"log_prob_train"}
                      /\ \E f \in r.trace.derived :
                            f.site = "log_prob_test" /\ f.obs = HeldOutSet

\* all three MCMC runs and the fit were made on a non-empty training set
TrainingWitness ==
    /\ \A s \in MCMCSites \cup {"optimize"} : Done(s)
    /\ TrainSet # {}
    /\ HeldOutSet # {}

\* C9 as stated: every inference result, the evidence estimates included,
\* rests on the one train/held-out split.
EveryResultOneSplit ==
    \A s \in CallSites : Done(s) => runs[s][1].t_train = TrainSet

\* C9 amended: every result has one kernel candidate, the three MCMC results
\* and the maximum-likelihood fit rest on the same train/held-out split, and
\* the three evidence estimates rest on all N observations with no held-out set.
ResultsKernelAndSplit ==
    /\ \A s \in CallSites : Done(s) => runs[s][1].trace.kernel \in Kernels
    /\ \A s1, s2 \in MCMCSites :
          Done(s1) /\ Done(s2) /\ s1 # s2 =>
              /\ runs[s1][1].trace.kernel # runs[s2][1].trace.kernel
              /\ runs[s1][1].t_train = runs[s2][1].t_train
              /\ runs[s1][1].t_test = runs[s2][1].t_test
    /\ \A s \in MCMCSites :
          Done(s) => runs[s][1].t_train = TrainSet /\ runs[s][1].t_test = Some(HeldOutSet)
    /\ \A s \in NSSites :
          Done(s) =>
              /\ runs[s][1].t_train = 1..N
              /\ runs[s][1].t_test = None
              /\ \A f \in runs[s][1].trace.target : f.obs = 1..N
              /\ \A s2 \in NSSites :
                    Done(s2) /\ s # s2 => runs[s][1].trace.kernel # runs[s2][1].trace.kernel

\* all six results exist and the split is a proper one
ResultsWitness ==
    /\ \A s \in CallSites : Done(s)
    /\ TrainSet # {}
    /\ HeldOutSet # {}

\* C7 as stated: in the figure, the candidate with the highest mean held-out
\* log-probability comes first in the histogram and in the evidence plot.
HighestScoreFirst ==
    fig # None =>
        /\ \A i \in 1..3 : fig[1].C[1].value >= fig[1].C[i].value
        /\ fig[1].B[1].kernel = fig[1].C[1].kernel

\* C7 amended: whatever the scores, the histogram and the evidence plot show
\* the candidates in the same fixed order, squared exponential, rational
\* quadratic, Matern-3/2, each position holding the same candidate in both
\* plots, in the stand-alone plots and in the panels of the figure.
SameOrder(curves, points) ==
    /\ Len(curves) = 3
    /\ Len(points) = 3
    /\ [i \in 1..3 |-> curves[i].label] = names
    /\ [i \in 1..3 |-> points[i].label] = names
    /\ \A i \in 1..3 : curves[i].kernel = points[i].kernel
    /\ curves[1].kernel = "build_exp_sq"

FixedOrderInBothPlots ==
    /\ (hist # <<>> /\ evid # <<>> => SameOrder(hist, evid))
    /\ (fig # None => SameOrder(fig[1].C, fig[1].B))

\* the figure is written although the first candidate shown has a strictly
\* lower mean held-out log-probability than another one
FixedOrderWitness ==
    /\ fig # None
    /\ evid # <<>>
    /\ fig[1].C[1].value < fig[1].C[3].value

-----------------------------------------------------------------------------
(* Properties of the lag sweep.                                            *)

\* The loop of the sweep has run to its end.
SweepFinished == gi = GridSize + 1

\* The points of the sweep in sweep order: 0 is the true parameters, k the
\* solution of grid point k.
CandLoss(c) == IF c = 0 THEN loss_true ELSE vals[c]
CandParams(c) == IF c = 0 THEN TrueParams ELSE heap[SolnObj(c)][1]
Selected == heap[minimum[1][2]][1]

\* C2: the running minimum of the sweep is a number and never exceeds the loss
\* at the true parameters, in particular when the sweep has finished.
MinimumNotAboveTrueLoss ==
    minimum # None => minimum[1][1] # NaN /\ minimum[1][1] <= loss_true

\* the sweep has finished on a minimum strictly below the loss at the true
\* parameters
MinimumWitness == SweepFinished /\ minimum[1][1] < loss_true

\* C3: when the sweep has finished, the selected parameter set is the one at
\* which the recorded minimum loss was obtained, the argmin over the true
\* parameters and the grid-point solutions; init and init_params are that
\* set; and if no solution is strictly lower than the loss at the true
\* parameters, it is the true parameters with lag 420.
SelectedIsArgmin ==
    SweepFinished =>
        /\ \E c \in 0..GridSize :
              /\ CandLoss(c) = minimum[1][1]
              /\ CandParams(c) = Selected
              /\ \A d \in 0..GridSize : CandLoss(d) # NaN => CandLoss(c) <= CandLoss(d)
        /\ (qpc # "sweep_end" => heap[init][1] = Selected)
        /\ (init_params # None => init_params[1].lag = Selected.lag)
        /\ ((\A k \in 1..GridSize : ~IsLower(vals[k], loss_true)) => Selected = TrueParams)

\* C4: when the sweep has finished, the selected parameter set is that of the
\* earliest point in sweep order that attains the lowest loss.
EarliestMinimumSelected ==
    SweepFinished =>
        LET attained == {c \in 0..GridSize :
                            /\ CandLoss(c) # NaN
                            /\ \A d \in 0..GridSize : CandLoss(d) # NaN => CandLoss(c) <= CandLoss(d)}
            first == CHOOSE c \in attained : \A d \in attained : c <= d
        IN  Selected = CandParams(first)

-----------------------------------------------------------------------------
(* Failures.                                                               *)

ACellIndex(c) == CHOOSE i \in 1..Len(ACells) : ACells[i] = c

\* A call was made at site s and raised.
ARaised(s) == calls[s] >= 1 /\ runs[s] = None
QRaisedAt(k) == qcalls[k] >= 1 /\ heap[SolnObj(k)] = None
QRaisedMCMC == qcalls[0] >= 1 /\ samples = None

NoRetryNoSalvage ==
    /\ \A s \in CallSites : calls[s] <= 1
    /\ \A k \in 0..GridSize : qcalls[k] <= 1
    /\ \A s \in CallSites :
          ARaised(s) =>
              /\ apc = "failed"
              /\ \A s2 \in CallSites :
                    ACellIndex(s2) > ACellIndex(s) => calls[s2] = 0 /\ runs[s2] = None
              /\ (ACellIndex(s) < ACellIndex("hist") => hist = <<>>)
              /\ evid = <<>>
              /\ fig = None
    /\ \A k \in 1..GridSize :
          QRaisedAt(k) =>
              /\ qpc = "failed"
              /\ gi = k
              /\ Len(lags) = k - 1
              /\ Len(vals) = k - 1
              /\ \A k2 \in 1..GridSize : k2 > k => qcalls[k2] = 0 /\ heap[SolnObj(k2)] = None
              /\ init = InitObj
              /\ t_grid = None
              /\ init_params = None
              /\ qcalls[0] = 0
    /\ QRaisedMCMC => qpc = "failed" /\ truths = None

\* C10: every external inference call is invoked at most once per candidate or
\* grid point; once one has raised, the notebook is stopped, no later call has
\* been made, no later plot, figure or initialization has been produced from
\* what was computed so far, and no further step is ever taken.
FailuresAreFatal ==
    /\ []NoRetryNoSalvage
    /\ [][apc = "failed" \/ qpc = "failed" => UNCHANGED vars]_vars

\* a grid-point optimization has raised after an earlier one had lowered the
\* minimum
FailureWitnessSweep ==
    /\ qpc = "failed"
    /\ gi > 1
    /\ gi <= GridSize
    /\ minimum[1][2] # InitObj

-----------------------------------------------------------------------------
(* Properties of the Multiband kernel and of the simulations.              *)

\* C6: relabeling the bands (b to 1 - b) and swapping the two amplitudes leaves
\* the observation model of every coordinate, the covariance of every pair
\* of coordinates and the sortable coordinate unchanged.
MultibandRelabelSymmetry ==
    fn # None /\ fn.op = "multiband" /\ fn.out # None =>
        /\ fn.out[1].obs = fn.out[1].obs_swapped
        /\ fn.out[1].cov = fn.out[1].cov_swapped
        /\ fn.out[1].sortable = fn.out[1].sortable_swapped
        /\ fn.out[1].sortable = fn.X1[1]

\* two observations of different bands with different non-zero amplitudes
MultibandWitness ==
    /\ fn # None
    /\ fn.op = "multiband"
    /\ fn.out # None
    /\ fn.amplitudes[1] # fn.amplitudes[2]
    /\ fn.X1[2] # fn.X2[2]
    /\ fn.out[1].cov # 0

\* C5: the simulation cell of each experiment, run twice with the same seed,
\* yields the same coordinates, the same values and the same mask, whatever
\* else differs between the two runs.
RerunReproduces ==
    fn # None /\ fn.op = "rerun" /\ Len(fn.outs) = 2 => fn.outs[1] = fn.outs[2]

\* the quasar simulation has run twice, on values written back out of order
RerunWitness ==
    /\ fn # None
    /\ fn.op = "rerun"
    /\ fn.exp = "quasar"
    /\ Len(fn.outs) = 2
    /\ fn.outs[2].y # Sample(Len(fn.outs[2].y))

-----------------------------------------------------------------------------
(* Properties of the candidates' runs in any order.                        *)

\* Every result of the second pass equals the result the same candidate's
\* run gave in the first pass.
SameAsFirstPass ==
    fn # None /\ fn.op = "order" /\ fn.pass = 2 =>
        \A s \in MCMCSites \cup NSSites : Done(s) => runs[s] = fn.first[s]

-----------------------------------------------------------------------------
(* Properties of the transit notebook.                                     *)

SitesOfKind(trace, kind) ==
    {trace.sites[i].site : i \in {j \in 1..Len(trace.sites) : trace.sites[j].kind = kind}}

TransitParams == {"log_jitter", "log_f0", "u", "t0", "log_r"}

\* C15: both fits are run on the same t, y_err and y, the simulated ones,
\* with the same sampler settings; both declare log_jitter, log_f0, u, t0 and
\* log_r and the derived r and mu, mu on t_grid, with log_duration and b fixed
\* and not sampled; the fit with the GP declares log_amp, log_ell and gp
\* besides, the fit without it none of the three; each declares exactly one
\* observed site, y, on the simulated values, and no site twice.
TransitFitsDifferInNoiseModel ==
    fn # None /\ fn.op = "transit" =>
        /\ \A k \in {"wn", "gp"} :
              fn.fits[k] # None =>
                  LET f == fn.fits[k][1]
                      tr == f.trace
                  IN  /\ f.t = fn.t /\ f.y_err = fn.y_err /\ f.y = fn.y
                      /\ f.use_gp = (k = "gp")
                      /\ f.settings = sampler_wn
                      /\ tr.params = [log_duration |-> "log(0.12)", b |-> "0.1"]
                      /\ SitesOfKind(tr, "sample") =
                            TransitParams \cup (IF k = "gp" THEN {"log_amp", "log_ell"} ELSE {})
                      /\ SitesOfKind(tr, "deterministic") =
                            {"r", "mu"} \cup (IF k = "gp" THEN {"gp"} ELSE {})
                      /\ \A i \in 1..Len(tr.sites) :
                            tr.sites[i].site = "mu" =>
                                tr.sites[i].of[1] \in {"gp.mean_function(t_grid)",
                                                       "light_curve(t_grid)"}
                      /\ Cardinality({i \in 1..Len(tr.sites) : tr.sites[i].kind = "observed"}) = 1
                      /\ \A i \in 1..Len(tr.sites) :
                            tr.sites[i].kind = "observed" =>
                                tr.sites[i].site = "y" /\ tr.sites[i].of[2] = fn.y
                      /\ \A i, j \in 1..Len(tr.sites) :
                            tr.sites[i].site = tr.sites[j].site => i = j
        /\ (fn.fits.wn # None /\ fn.fits.gp # None =>
               /\ fn.fits.wn[1].settings = fn.fits.gp[1].settings
               /\ fn.fits.wn[1].t = fn.fits.gp[1].t
               /\ fn.fits.wn[1].y = fn.fits.gp[1].y
               /\ fn.fits.wn[1].y_err = fn.fits.gp[1].y_err)

\* both fits are made, on at least two observations that differ
TransitWitness ==
    /\ fn # None
    /\ fn.op = "transit"
    /\ fn.pc = "done"
    /\ fn.fits.wn # None
    /\ fn.fits.gp # None
    /\ Len(fn.y) >= 2
    /\ fn.y[1] # fn.y[2]

-----------------------------------------------------------------------------
(* Properties of the data of the three notebooks.                          *)

\* C12: in each notebook, every step other than the simulation cell leaves
\* the observations as they are: N, t, y, yerr and the mask of the assessment
\* notebook, the table, X, diag and y of the quasar notebook, t, y_err and y
\* of the transit notebook.  The simulation cell runs once, first, so the
\* mask is generated once and never recomputed.
ObservationsImmutable ==
    [][/\ (apc # "simulate" => UNCHANGED <<N, dataset, mask_train>>)
       /\ (qpc # "simulate" => UNCHANGED <<data, X, diag, y>>)
       /\ (fn # None /\ fn.op = "transit" /\ fn.pc # "simulate" =>
              fn'.t = fn.t /\ fn'.y_err = fn.y_err /\ fn'.y = fn.y)
       /\ apc' # "simulate"
       /\ qpc' # "simulate"
       /\ (fn # None /\ fn.op = "transit" => fn'.pc # "simulate")]_vars

\* the quasar notebook has run to its end: the sweep, the sampler and the
\* plots have acted on simulated data
ImmutableWitness ==
    /\ qpc = "done"
    /\ X # None
    /\ Len(y) = 2 * Len(data)
    /\ Len(y) >= 2
    /\ samples # None
    /\ truths # None

-----------------------------------------------------------------------------
(* Properties of the results of the assessment notebook.                   *)

ProducedOnce ==
    /\ \A s \in CallSites : calls[s] <= 1 /\ (Done(s) => calls[s] = 1)
    /\ fig # None =>
          /\ \A s \in CallSites : Done(s)
          /\ fig[1].A = runs["optimize"][1]
          /\ \A i \in 1..3 :
                /\ fig[1].B[i].value = runs[fig[1].B[i].from][1].value
                /\ fig[1].C[i].value = runs[fig[1].C[i].from][1].value
          /\ {fig[1].B[i].from : i \in 1..3} = NSSites
          /\ {fig[1].C[i].from : i \in 1..3} = MCMCSites

\* C13: in a run of the assessment notebook the maximum-likelihood fit, each
\* of the three MCMC results and each of the three evidence estimates is
\* produced by exactly one call, no later step changes a result once it is
\* there, and the figure is written only when all of them exist, its panels
\* holding the values of those results.
ResultsProducedOnce ==
    /\ []ProducedOnce
    /\ [][\A s \in CallSites : Done(s) => runs'[s] = runs[s]]_vars
    /\ [][fig # None => fig' = fig]_vars

\* the figure is written, after one call at each of the seven sites
FigureWitness ==
    /\ apc = "done"
    /\ fig # None
    /\ \A s \in CallSites : calls[s] = 1
    /\ hist # <<>>

-----------------------------------------------------------------------------
(* Properties of the solutions of the lag sweep.                           *)

\* C14: the solution recorded for a grid point has the lag of that grid
\* point: the k-th entry of lags and the lag of the k-th solution are the
\* k-th value of the grid.
RecordedLagIsGridLag ==
    \A k \in 1..Len(lags) :
        /\ lags[k] = Grid[k]
        /\ heap[SolnObj(k)][1].lag = Grid[k]

-----------------------------------------------------------------------------
(* Properties of the quasar build_gp and of its callers.                   *)

IsPermutation(inds, n) ==
    /\ Len(inds) = n
    /\ \A i \in 1..n : Cardinality({j \in 1..n : inds[j] = i}) = 1

\* The k-th point of the GP is the observation inds[k]: its lagged time, its
\* band and its uncertainty (each uncertainty is named by its observation).
Aligned(g, inds, lag, jd) ==
    LET XX == Coordinates(jd)
    IN  /\ IsPermutation(inds, 2 * Len(jd))
        /\ \A k \in 1..(2 * Len(jd)) :
              /\ g.t[k] = XX.t[inds[k]] - lag * XX.band[inds[k]]
              /\ g.band[k] = XX.band[inds[k]]
              /\ g.diag[k] = Uncertainties(jd)[inds[k]]
        /\ \A k \in 1..(2 * Len(jd) - 1) : g.t[k] <= g.t[k + 1]

\* C16: for every lag and every table, in loss, in the MCMC model and in the
\* simulation, inds is a permutation of all 2N observations that puts the
\* lagged times in non-decreasing order, the k-th time, band and uncertainty
\* of the GP are those of observation inds[k], and the k-th value the caller
\* hands to the GP (or writes from it) is that of observation inds[k] too.
BuildGpKeepsAligned ==
    fn # None /\ fn.op = "build_gp" =>
        /\ \A c \in {"loss", "model"} :
              fn.out[c] # None =>
                  LET o == fn.out[c][1]
                  IN  /\ Aligned(o.gp, o.inds, fn.lag, fn.jd)
                      /\ \A k \in 1..Len(o.inds) :
                            o.y[k] = ValuesByObservation(Len(o.inds))[o.inds[k]]
        /\ fn.out.model # None =>
              /\ fn.out.model[1].pred_a = fn.out.model[1].y
              /\ fn.out.model[1].pred_b = fn.out.model[1].y
        /\ fn.out.simulation # None =>
              LET o == fn.out.simulation[1]
              IN  /\ Aligned(o.gp, o.inds, TrueLag, fn.jd)
                  /\ \A k \in 1..Len(o.inds) : o.y[o.inds[k]] = o.sample[k]

\* loss was evaluated at a lag that sorts a band-1 observation before a
\* band-0 observation of a smaller index, with two lagged times equal
AlignedWitness ==
    /\ fn # None
    /\ fn.op = "build_gp"
    /\ fn.out.loss # None
    /\ fn.out.model # None
    /\ Len(fn.jd) = 2
    /\ fn.out.loss[1].inds[1] > 2
    /\ \E k \in 1..3 : fn.out.loss[1].gp.t[k] = fn.out.loss[1].gp.t[k + 1]

\* C17: in the simulation every entry of y is written exactly once with an
\* entry of the sample, none keeps what the fresh array held, and y[inds]
\* is the sample in the order it was drawn.
ScatterRoundTrip ==
    fn # None /\ fn.op = "build_gp" /\ fn.out.simulation # None =>
        LET o == fn.out.simulation[1]
            n == 2 * Len(fn.jd)
        IN  /\ Len(o.y) = n
            /\ \A i \in 1..n : Cardinality({j \in 1..Len(o.inds) : o.inds[j] = i}) = 1
            /\ \A i \in 1..n : o.y[i] \notin Uninit
            /\ \A i \in 1..n : \E j \in 1..n : o.inds[j] = i /\ o.y[i] = o.sample[j]
            /\ Take(o.y, o.inds) = o.sample

\* the simulation has written a sample back through an inds that is not its
\* own inverse
ScatterWitness ==
    /\ fn # None
    /\ fn.op = "build_gp"
    /\ fn.out.simulation # None
    /\ LET o == fn.out.simulation[1]
       IN  /\ Len(o.inds) = 4
           /\ Take(o.inds, o.inds) # [i \in 1..4 |-> i]

-----------------------------------------------------------------------------
(* Properties of the true parameters during the lag sweep.                 *)

\* The grid points at which opt.run has been called.
Started == {k \in 1..GridSize : qcalls[k] >= 1}

\* C18: true_params keeps lag 420 and its log_ell, amps and means through
\* the sweep and to the end of the notebook, where the posterior plot marks
\* them as the truth; the dict the optimizer is started from has the true
\* log_ell, amps and means at every grid point, whatever the solutions
\* of the earlier grid points were, and the lag of the grid point.
TrueParamsKept ==
    /\ (qpc \notin {"idle", "simulate"} =>
           /\ heap[TrueObj] = Some(TrueParams)
           /\ heap[TrueObj][1].lag = TrueLag)
    /\ (heap[InitObj] # None =>
           /\ heap[InitObj][1].log_ell = TrueParams.log_ell
           /\ heap[InitObj][1].amps = TrueParams.amps
           /\ heap[InitObj][1].means = TrueParams.means
           /\ (Started = {} => heap[InitObj][1].lag = TrueLag)
           /\ \A k \in Started :
                 (\A k2 \in Started : k2 <= k) => heap[InitObj][1].lag = Grid[k])
    /\ (truths # None =>
           truths = Some(<<TrueLag, TrueParams.means[2] - TrueParams.means[1]>>))

\* the notebook has run to its end, on a sweep whose solutions differ from the
\* true values and one of which was selected
TrueParamsWitness ==
    /\ qpc = "done"
    /\ truths # None
    /\ gi = GridSize + 1
    /\ minimum[1][2] # InitObj
    /\ heap[SolnObj(1)][1].amps # TrueParams.amps

-----------------------------------------------------------------------------
(* Properties of the lag the sampler is initialised with.                  *)

\* C19: the lag of the parameter set the sweep selects, and of init_params,
\* lies between 0 and the upper end of the grid and of the lag prior.
SelectedLagInRange ==
    /\ (SweepFinished => Selected.lag >= 0 /\ Selected.lag <= MaxLag)
    /\ (init_params # None => init_params[1].lag >= 0 /\ init_params[1].lag <= MaxLag)

-----------------------------------------------------------------------------
(* Properties of the labels of the comparison plots.                       *)

\* The candidate a label names.
NamedBy(label) ==
    CASE label = "squared exp." -> "build_exp_sq"
      [] label = "rational quad." -> "build_raquad"
      [] label = "Matern-3/2" -> "build_matern"

PointsPaired(points) ==
    \A i \in 1..Len(points) :
        /\ points[i].from \in NSSites
        /\ points[i].uncert_from = points[i].from
        /\ BuilderOf(points[i].from) = NamedBy(points[i].label)
        /\ runs[points[i].from][1].trace.kernel = NamedBy(points[i].label)
        /\ points[i].value = runs[points[i].from][1].value

CurvesPaired(curves) ==
    \A i \in 1..Len(curves) :
        /\ curves[i].from \in MCMCSites
        /\ BuilderOf(curves[i].from) = NamedBy(curves[i].label)
        /\ runs[curves[i].from][1].trace.kernel = NamedBy(curves[i].label)
        /\ curves[i].value = runs[curves[i].from][1].value

\* C20: in the evidence plot and in panel B of the figure, the name, the
\* log_Z value and the log_Z uncertainty at each position come from the
\* nested-sampling run of the candidate the name names; in the histogram and
\* in panel C each label is on the held-out log-probabilities of the MCMC run
\* of the candidate it names; and the labels come in the same order, squared
\* exponential, rational quadratic, Matern-3/2, in all four.
LabelsPairedWithResults ==
    /\ PointsPaired(evid)
    /\ CurvesPaired(hist)
    /\ (evid # <<>> => [i \in 1..Len(evid) |-> evid[i].label] = names)
    /\ (hist # <<>> => [i \in 1..Len(hist) |-> hist[i].label] = names)
    /\ (fig # None =>
           /\ PointsPaired(fig[1].B)
           /\ CurvesPaired(fig[1].C)
           /\ [i \in 1..Len(fig[1].B) |-> fig[1].B[i].label] = names
           /\ [i \in 1..Len(fig[1].C) |-> fig[1].C[i].label] = names)

\* the figure is written from three evidences that all differ and three
\* held-out scores that all differ
LabelsWitness ==
    /\ fig # None
    /\ evid # <<>>
    /\ hist # <<>>
    /\ \A i, j \in 1..3 :
          i # j => fig[1].B[i].value # fig[1].B[j].value /\ fig[1].C[i].value # fig[1].C[j].value

====
